---- MODULE Spec2Model ----
(***************************************************************************)
(* LocalChunkManager (internal/storage/local_chunk_manager.go): the local  *)
(* filesystem backend of the chunk storage contract.                        *)
(*                                                                         *)
(* Strings are sequences of one-character strings, so that path.Join,      *)
(* path.Clean, strings.HasPrefix, strings.TrimPrefix and filepath.Glob are *)
(* computed character by character, as the Go code computes them.          *)
(* The filesystem is a function from clean absolute paths to entries.      *)
(* Every entry is created by the manager itself with os.ModePerm, so      *)
(* permission failures and symbolic links do not arise.                    *)
(***************************************************************************)
EXTENDS Integers, Sequences, FiniteSets, TLC

\* localPath: the manager's root; fs: the filesystem; op, arg, ret: the last
\* call, its arguments and what it returned; pre: the filesystem before that
\* call; written: the virtual paths Write has been called on (a history
\* variable, kept by SpecHist alone); inflight: the call that has begun and
\* not yet returned, and what it holds in its local variables (kept by the
\* specifications in which the calls of several callers interleave)
VARIABLES localPath, fs, pre, op, arg, ret, written, inflight

vars == <<localPath, fs, pre, op, arg, ret, written, inflight>>

(***************************************************************************)
(* Bounds                                                                  *)
(***************************************************************************)
\* longest content written by Write / MultiWrite
MaxDataLen == 1
\* largest offset and length passed to ReadAt
MaxOff == 2
\* most paths in one MultiRead, MultiWrite or MultiRemove
MaxBatch == 2

(***************************************************************************)
(* Strings                                                                 *)
(***************************************************************************)
Slash == <<"/">>
Dot == <<".">>
DotDot == <<".", ".">>
Star == <<"*">>

\* byte values of the characters used, the order of sorted directory reads
CharCode(c) ==
    CASE c = "*" -> 42
      [] c = "." -> 46
      [] c = "/" -> 47
      [] c = "a" -> 97
      [] c = "b" -> 98
      [] c = "c" -> 99
      [] c = "r" -> 114
      [] c = "t" -> 116
      [] c = "x" -> 120
      [] c = "y" -> 121
      [] c = "z" -> 122

RECURSIVE StrLess(_, _)
StrLess(s, t) ==
    IF t = <<>> THEN FALSE
    ELSE IF s = <<>> THEN TRUE
    ELSE IF Head(s) = Head(t) THEN StrLess(Tail(s), Tail(t))
    ELSE CharCode(Head(s)) < CharCode(Head(t))

HasPrefix(s, prefix) ==
    /\ Len(prefix) <= Len(s)
    /\ SubSeq(s, 1, Len(prefix)) = prefix

TrimPrefix(s, prefix) ==
    IF HasPrefix(s, prefix) THEN SubSeq(s, Len(prefix) + 1, Len(s)) ELSE s

\* index of the last "/" of s, 0 when there is none
RECURSIVE LastSlash(_)
LastSlash(s) ==
    IF s = <<>> THEN 0
    ELSE IF s[Len(s)] = "/" THEN Len(s)
    ELSE LastSlash(SubSeq(s, 1, Len(s) - 1))

\* index of the first "/" of s at or after i, 0 when there is none
RECURSIVE SlashFrom(_, _)
SlashFrom(s, i) ==
    IF i > Len(s) THEN 0
    ELSE IF s[i] = "/" THEN i
    ELSE SlashFrom(s, i + 1)

RECURSIVE SplitSlash(_)
SplitSlash(s) ==
    LET i == SlashFrom(s, 1)
    IN  IF i = 0 THEN <<s>>
        ELSE <<SubSeq(s, 1, i - 1)>> \o SplitSlash(SubSeq(s, i + 1, Len(s)))

RECURSIVE JoinSlash(_)
JoinSlash(elems) ==
    IF elems = <<>> THEN <<>>
    ELSE IF Len(elems) = 1 THEN elems[1]
    ELSE elems[1] \o Slash \o JoinSlash(Tail(elems))

RECURSIVE CleanStack(_, _, _)
CleanStack(comps, stack, rooted) ==
    IF comps = <<>> THEN stack
    ELSE LET c == Head(comps)
             rest == Tail(comps)
         IN  IF c = <<>> \/ c = Dot THEN CleanStack(rest, stack, rooted)
             ELSE IF c = DotDot
             THEN IF stack # <<>> /\ stack[Len(stack)] # DotDot
                  THEN CleanStack(rest, SubSeq(stack, 1, Len(stack) - 1), rooted)
                  ELSE IF rooted THEN CleanStack(rest, stack, rooted)
                  ELSE CleanStack(rest, Append(stack, c), rooted)
             ELSE CleanStack(rest, Append(stack, c), rooted)

\* path.Clean
Clean(s) ==
    IF s = <<>> THEN Dot
    ELSE LET rooted == s[1] = "/"
             body == JoinSlash(CleanStack(SplitSlash(s), <<>>, rooted))
         IN  IF rooted THEN Slash \o body
             ELSE IF body = <<>> THEN Dot ELSE body

\* path.Join of two elements: empty elements are ignored, the rest is cleaned
Join(a, b) ==
    LET elems == SelectSeq(<<a, b>>, LAMBDA e : e # <<>>)
    IN  IF elems = <<>> THEN <<>> ELSE Clean(JoinSlash(elems))

\* path.Dir and filepath.Dir: all but the last element, cleaned
Dir(s) == Clean(SubSeq(s, 1, LastSlash(s)))

\* the last element of a clean path
Base(s) == SubSeq(s, LastSlash(s) + 1, Len(s))

\* path/filepath.Match for patterns of literal characters and "*"
RECURSIVE Match(_, _)
Match(pattern, name) ==
    IF pattern = <<>> THEN name = <<>>
    ELSE IF Head(pattern) = "*"
    THEN \/ Match(Tail(pattern), name)
         \/ name # <<>> /\ Head(name) # "/" /\ Match(pattern, Tail(name))
    ELSE /\ name # <<>>
         /\ Head(name) = Head(pattern)
         /\ Match(Tail(pattern), Tail(name))

\* the elements of a set of strings in increasing byte order
RECURSIVE SortStrs(_)
SortStrs(S) ==
    IF S = {} THEN <<>>
    ELSE LET m == CHOOSE x \in S : \A y \in S \ {x} : StrLess(x, y)
         IN  <<m>> \o SortStrs(S \ {m})

(***************************************************************************)
(* Values                                                                  *)
(***************************************************************************)
\* a []byte: nil, or a (possibly empty) sequence of bytes
NilBytes == [nil |-> TRUE, b |-> <<>>]
Bytes(b) == [nil |-> FALSE, b |-> b]

\* errors: the nil error, the errno of a failed system call, io.EOF, and the
\* two errors the manager makes itself
ErrNil == "nil"
ENOENT == "ENOENT"
ENOTDIR == "ENOTDIR"
EISDIR == "EISDIR"
EOF == "EOF"
ErrFileNotExist == "file not exist"
ErrLocalFileNotFound == "local file cannot be found"

(***************************************************************************)
(* The filesystem                                                          *)
(***************************************************************************)
DirEntry == [isDir |-> TRUE, data |-> <<>>]
FileEntry(data) == [isDir |-> FALSE, data |-> data]

\* the directory that holds the entry at the clean absolute path p
Parent(p) ==
    IF LastSlash(p) <= 1 THEN Slash ELSE SubSeq(p, 1, LastSlash(p) - 1)

\* f with path p bound to entry e
Put(f, p, e) == [q \in DOMAIN f \cup {p} |-> IF q = p THEN e ELSE f[q]]

\* os.Stat: the first element of the path that cannot be resolved decides
RECURSIVE Stat(_, _)
Stat(f, p) ==
    IF p \in DOMAIN f THEN [err |-> ErrNil, isDir |-> f[p].isDir]
    ELSE IF p = <<>> \/ p[1] # "/" \/ p = Slash THEN [err |-> ENOENT, isDir |-> FALSE]
    ELSE LET up == Stat(f, Parent(p))
         IN  IF up.err # ErrNil THEN up
             ELSE IF ~up.isDir THEN [err |-> ENOTDIR, isDir |-> FALSE]
             ELSE [err |-> ENOENT, isDir |-> FALSE]

\* os.IsNotExist
IsNotExist(err) == err = ENOENT

\* os.MkdirAll
RECURSIVE MkdirAll(_, _)
MkdirAll(f, p) ==
    IF p \in DOMAIN f
    THEN [err |-> IF f[p].isDir THEN ErrNil ELSE ENOTDIR, fs |-> f]
    ELSE CHOOSE r \in
             {IF up.err # ErrNil THEN up
              ELSE [err |-> ErrNil, fs |-> Put(up.fs, p, DirEntry)] :
                  up \in {MkdirAll(f, Parent(p))}} : TRUE

\* WriteFile opening without O_TRUNC: the old bytes past the new ones stay
WriteFileNoTrunc(f, p, data) ==
    IF p \in DOMAIN f
    THEN IF f[p].isDir THEN [err |-> EISDIR, fs |-> f]
         ELSE [err |-> ErrNil,
               fs |-> Put(f, p, FileEntry(data \o SubSeq(f[p].data, Len(data) + 1,
                                                         Len(f[p].data))))]
    ELSE LET up == Stat(f, Parent(p))
         IN  IF up.err # ErrNil THEN [err |-> up.err, fs |-> f]
             ELSE IF ~up.isDir THEN [err |-> ENOTDIR, fs |-> f]
             ELSE [err |-> ErrNil, fs |-> Put(f, p, FileEntry(data))]

\* ioutil.WriteFile: open with O_WRONLY|O_CREATE|O_TRUNC, write, close
WriteFile(f, p, data) ==
    IF p \in DOMAIN f
    THEN IF f[p].isDir THEN [err |-> EISDIR, fs |-> f]
         ELSE [err |-> ErrNil, fs |-> Put(f, p, FileEntry(data))]
    ELSE LET up == Stat(f, Parent(p))
         IN  IF up.err # ErrNil THEN [err |-> up.err, fs |-> f]
             ELSE IF ~up.isDir THEN [err |-> ENOTDIR, fs |-> f]
             ELSE [err |-> ErrNil, fs |-> Put(f, p, FileEntry(data))]

\* ioutil.ReadFile: a directory opens, and its read fails with EISDIR after
\* the buffer has been allocated
ReadFile(f, p) ==
    LET st == Stat(f, p)
    IN  IF st.err # ErrNil THEN [data |-> NilBytes, err |-> st.err]
        ELSE IF st.isDir THEN [data |-> Bytes(<<>>), err |-> EISDIR]
        ELSE [data |-> Bytes(f[p].data), err |-> ErrNil]

\* p and everything beneath it
Tree(f, p) ==
    LET below == IF p = Slash THEN Slash ELSE p \o Slash
    IN  {q \in DOMAIN f : q = p \/ HasPrefix(q, below)}

\* os.Remove in the place of os.RemoveAll: a directory that is not empty stays
RemoveOne(f, p) ==
    IF Tree(f, p) # {p} THEN [err |-> "ENOTEMPTY", fs |-> f]
    ELSE [err |-> ErrNil, fs |-> [q \in DOMAIN f \ {p} |-> f[q]]]

\* os.RemoveAll: no error when p is absent; the manager never resolves a
\* path to "/" itself
RemoveAll(f, p) ==
    LET keep == DOMAIN f \ Tree(f, p)
    IN  [err |-> ErrNil, fs |-> [q \in keep |-> f[q]]]

\* the entries directly in directory p
Children(f, p) == {q \in DOMAIN f : q # p /\ Parent(q) = p}

\* filepath.Walk below an entry that exists: the entry, then, for a
\* directory, the walk of each child in the order of the sorted names
RECURSIVE WalkFrom(_, _)
RECURSIVE WalkAll(_, _)
WalkFrom(f, p) ==
    IF f[p].isDir
    THEN CHOOSE w \in {<<p>> \o WalkAll(f, names) :
                           names \in {SortStrs(Children(f, p))}} : TRUE
    ELSE <<p>>
WalkAll(f, ps) ==
    IF ps = <<>> THEN <<>> ELSE WalkFrom(f, Head(ps)) \o WalkAll(f, Tail(ps))

\* filepath.Walk: the calls of the walk function, as <<path, info>>; a root
\* that cannot be stat'ed is visited once, with a nil FileInfo
Walk(f, root) ==
    IF Stat(f, root).err # ErrNil THEN << [path |-> root, info |-> "nil"] >>
    ELSE CHOOSE w \in
             {[i \in 1..Len(visited) |->
                  [path |-> visited[i],
                   info |-> IF f[visited[i]].isDir THEN "dir" ELSE "file"]] :
                  visited \in {WalkFrom(f, root)}} : TRUE

\* Glob returning every entry of the directory, whatever its name
GlobAll(f, pattern) ==
    LET dir == Dir(pattern)
        st == Stat(f, dir)
    IN  IF st.err # ErrNil \/ ~st.isDir THEN <<>>
        ELSE SortStrs(Children(f, dir))

\* filepath.Glob of a pattern whose last element alone holds a wildcard: the
\* sorted names of the directory part that match the last element
Glob(f, pattern) ==
    LET dir == Dir(pattern)
        st == Stat(f, dir)
    IN  IF st.err # ErrNil \/ ~st.isDir THEN <<>>
        ELSE SortStrs({q \in Children(f, dir) : Match(Base(pattern), Base(q))})

(***************************************************************************)
(* LocalChunkManager                                                       *)
(***************************************************************************)
\* Exist without the os.IsNotExist case: every stat error is returned
ExistAnyErr(root, f, filePath) ==
    LET st == Stat(f, Join(root, filePath))
    IN  IF st.err # ErrNil THEN [exist |-> FALSE, err |-> st.err]
        ELSE [exist |-> TRUE, err |-> ErrNil]

\* Exist: false with no error when the stat reports ENOENT
Exist(root, f, filePath) ==
    LET st == Stat(f, Join(root, filePath))
    IN  IF st.err # ErrNil
        THEN IF IsNotExist(st.err) THEN [exist |-> FALSE, err |-> ErrNil]
             ELSE [exist |-> FALSE, err |-> st.err]
        ELSE [exist |-> TRUE, err |-> ErrNil]

\* Path: the resolved path, if something exists there
Path(root, f, filePath) ==
    LET ex == Exist(root, f, filePath)
    IN  IF ex.err # ErrNil THEN [path |-> <<>>, err |-> ex.err]
        ELSE IF ~ex.exist THEN [path |-> <<>>, err |-> ErrLocalFileNotFound]
        ELSE [path |-> Join(root, filePath), err |-> ErrNil]

\* Reader: os.Open of the resolved path; file is the path the handle is on
Reader(root, f, filePath) ==
    LET ex == Exist(root, f, filePath)
    IN  IF ex.err # ErrNil THEN [nil |-> TRUE, file |-> <<>>, err |-> ex.err]
        ELSE IF ~ex.exist
        THEN [nil |-> TRUE, file |-> <<>>, err |-> ErrLocalFileNotFound]
        ELSE [nil |-> FALSE, file |-> Join(root, filePath), err |-> ErrNil]

\* Write removing what is at the resolved path before it writes the file
WriteReplace(root, f, filePath, content) ==
    LET absPath == Join(root, filePath)
        dir == Dir(absPath)
        ex == Exist(root, f, dir)
    IN  IF ex.err # ErrNil THEN [err |-> ex.err, fs |-> f]
        ELSE LET mk == IF ~ex.exist THEN MkdirAll(f, dir)
                       ELSE [err |-> ErrNil, fs |-> f]
             IN  IF mk.err # ErrNil THEN [err |-> mk.err, fs |-> mk.fs]
                 ELSE WriteFile(RemoveAll(mk.fs, absPath).fs, absPath, content)

\* Write: the existence check is made on the already resolved directory,
\* which Exist joins to the root a second time
Write(root, f, filePath, content) ==
    LET absPath == Join(root, filePath)
        dir == Dir(absPath)
        ex == Exist(root, f, dir)
    IN  IF ex.err # ErrNil THEN [err |-> ex.err, fs |-> f]
        ELSE LET mk == IF ~ex.exist THEN MkdirAll(f, dir)
                       ELSE [err |-> ErrNil, fs |-> f]
             IN  IF mk.err # ErrNil THEN [err |-> mk.err, fs |-> mk.fs]
                 ELSE WriteFile(mk.fs, absPath, content)

\* Read without the existence check
ReadUnchecked(root, f, filePath) == ReadFile(f, Join(root, filePath))

\* Read
Read(root, f, filePath) ==
    LET ex == Exist(root, f, filePath)
    IN  IF ex.err # ErrNil THEN [data |-> NilBytes, err |-> ex.err]
        ELSE IF ~ex.exist THEN [data |-> NilBytes, err |-> ErrFileNotExist]
        ELSE ReadFile(f, Join(root, filePath))

\* Remove
Remove(root, f, filePath) ==
    LET ex == Exist(root, f, filePath)
    IN  IF ex.err # ErrNil THEN [err |-> ex.err, fs |-> f]
        ELSE IF ex.exist THEN RemoveAll(f, Join(root, filePath))
        ELSE [err |-> ErrNil, fs |-> f]

\* ReadAt returning what a single read call gets, a short buffer included
ReadAtShort(root, f, filePath, off, length) ==
    IF off < 0 \/ length < 0 THEN [data |-> NilBytes, err |-> EOF]
    ELSE LET absPath == Clean(Join(root, filePath))
             st == Stat(f, absPath)
         IN  IF st.err # ErrNil THEN [data |-> NilBytes, err |-> st.err]
             ELSE IF length = 0 THEN [data |-> Bytes(<<>>), err |-> ErrNil]
             ELSE IF st.isDir THEN [data |-> NilBytes, err |-> EISDIR]
             ELSE LET size == Len(f[absPath].data)
                      last == IF off + length < size THEN off + length ELSE size
                  IN  [data |-> Bytes(SubSeq(f[absPath].data, off + 1, last)),
                       err |-> ErrNil]

\* ReadAt: os.File.ReadAt reads until the buffer is full, so that an empty
\* buffer is filled by no read at all; a directory opens and cannot be read
ReadAt(root, f, filePath, off, length) ==
    IF off < 0 \/ length < 0 THEN [data |-> NilBytes, err |-> EOF]
    ELSE LET absPath == Clean(Join(root, filePath))
             st == Stat(f, absPath)
         IN  IF st.err # ErrNil THEN [data |-> NilBytes, err |-> st.err]
             ELSE IF length = 0 THEN [data |-> Bytes(<<>>), err |-> ErrNil]
             ELSE IF st.isDir THEN [data |-> NilBytes, err |-> EISDIR]
             ELSE IF off + length > Len(f[absPath].data)
             THEN [data |-> NilBytes, err |-> EOF]
             ELSE [data |-> Bytes(SubSeq(f[absPath].data, off + 1, off + length)),
                   err |-> ErrNil]

\* the aggregate error of a batch: nil when the ErrorList el is empty
ErrorList == "ErrorList"
Aggregate(el) == IF Len(el) = 0 THEN ErrNil ELSE ErrorList
Failures(outcomes) == SelectSeq(outcomes, LAMBDA e : e # ErrNil)

\* the loop of MultiWrite returning at the first Write that fails
RECURSIVE MultiWriteLoopAbort(_, _, _, _, _)
MultiWriteLoopAbort(root, f, contents, order, outcomes) ==
    IF order = <<>> THEN [fs |-> f, outcomes |-> outcomes]
    ELSE CHOOSE loop \in
             {IF w.err # ErrNil THEN [fs |-> w.fs, outcomes |-> Append(outcomes, w.err)]
              ELSE MultiWriteLoopAbort(root, w.fs, contents, Tail(order),
                                       Append(outcomes, w.err)) :
                  w \in {Write(root, f, Head(order), contents[Head(order)])}} : TRUE

\* MultiWrite: the map entries in the order the range statement yields them;
\* outcomes holds the error of each Write, the nil ones included. (A loop
\* binds the result of each step as the one element of a set, which has TLC
\* compute it once.)
RECURSIVE MultiWriteLoop(_, _, _, _, _)
MultiWriteLoop(root, f, contents, order, outcomes) ==
    IF order = <<>> THEN [fs |-> f, outcomes |-> outcomes]
    ELSE CHOOSE loop \in
             {MultiWriteLoop(root, w.fs, contents, Tail(order), Append(outcomes, w.err)) :
                  w \in {Write(root, f, Head(order), contents[Head(order)])}} : TRUE

MultiWrite(root, f, contents, order) ==
    CHOOSE r \in
        {LET el == Failures(loop.outcomes)
         IN  [err |-> Aggregate(el), el |-> el, outcomes |-> loop.outcomes,
              fs |-> loop.fs] :
             loop \in {MultiWriteLoop(root, f, contents, order, <<>>)}} : TRUE

\* MultiRead appending the content of the reads that succeed, so that a
\* failed read leaves no slot
MultiReadSkip(root, f, filePaths) ==
    LET reads == [i \in 1..Len(filePaths) |-> Read(root, f, filePaths[i])]
        good == SelectSeq(reads, LAMBDA r : r.err = ErrNil)
        el == Failures([i \in 1..Len(filePaths) |-> reads[i].err])
    IN  [results |-> [i \in 1..Len(good) |-> good[i].data],
         err |-> Aggregate(el), el |-> el]

\* MultiRead
MultiRead(root, f, filePaths) ==
    LET reads == [i \in 1..Len(filePaths) |-> Read(root, f, filePaths[i])]
        el == Failures([i \in 1..Len(filePaths) |-> reads[i].err])
    IN  [results |-> [i \in 1..Len(filePaths) |-> reads[i].data],
         err |-> Aggregate(el), el |-> el]

\* MultiRemove
RECURSIVE MultiRemoveLoop(_, _, _, _)
MultiRemoveLoop(root, f, filePaths, outcomes) ==
    IF filePaths = <<>> THEN [fs |-> f, outcomes |-> outcomes]
    ELSE CHOOSE loop \in
             {MultiRemoveLoop(root, rm.fs, Tail(filePaths), Append(outcomes, rm.err)) :
                  rm \in {Remove(root, f, Head(filePaths))}} : TRUE

MultiRemove(root, f, filePaths) ==
    CHOOSE r \in
        {LET el == Failures(loop.outcomes)
         IN  [err |-> Aggregate(el), el |-> el, outcomes |-> loop.outcomes,
              fs |-> loop.fs] :
             loop \in {MultiRemoveLoop(root, f, filePaths, <<>>)}} : TRUE

\* getModTime: the modification time is stood for by the path that was stat'ed
getModTime(root, f, filepath) ==
    LET absPath == Join(root, filepath)
        st == Stat(f, absPath)
    IN  IF st.err # ErrNil THEN [modTime |-> <<>>, err |-> st.err]
        ELSE [modTime |-> absPath, err |-> ErrNil]

\* the loop over the listed paths that both modes end with: the modification
\* times, or nil and the error of the first stat that fails
ModTimes(root, f, filePaths) ==
    LET mt == [i \in 1..Len(filePaths) |-> getModTime(root, f, filePaths[i])]
        bad == {i \in 1..Len(filePaths) : mt[i].err # ErrNil}
    IN  IF bad # {}
        THEN [filePaths |-> filePaths, nilTimes |-> TRUE, modTimes |-> <<>>,
              err |-> mt[CHOOSE i \in bad : \A j \in bad : i <= j].err, panic |-> FALSE]
        ELSE [filePaths |-> filePaths, nilTimes |-> filePaths = <<>>,
              modTimes |-> [i \in 1..Len(filePaths) |-> mt[i].modTime],
              err |-> ErrNil, panic |-> FALSE]

\* the walk function matching whole path elements: the prefix itself and
\* what is beneath it
WalkKeepsElements(absPrefix, v) ==
    /\ v.path = absPrefix \/ HasPrefix(v.path, absPrefix \o Slash)
    /\ v.info # "dir"

\* the walk function of the recursive mode keeps a visited path
WalkKeeps(absPrefix, v) == HasPrefix(v.path, absPrefix) /\ v.info # "dir"

\* ListWithPrefix, the listing step: the walk of the parent directory of the
\* resolved prefix, or the glob of the prefix followed by "*". The walk
\* function dereferences the FileInfo it is given, which is nil when the
\* walk's root cannot be stat'ed
ListPaths(root, f, prefix, recursive) ==
    IF recursive
    THEN LET absPrefix == Join(root, prefix)
             dir == Dir(absPrefix)
         IN  CHOOSE r \in
                 {IF \E i \in 1..Len(kept) : kept[i].info = "nil"
                  THEN [filePaths |-> <<>>, panic |-> TRUE]
                  ELSE [filePaths |-> [i \in 1..Len(kept) |-> TrimPrefix(kept[i].path, root)],
                        panic |-> FALSE] :
                      kept \in {SelectSeq(Walk(f, dir),
                                          LAMBDA v : WalkKeeps(absPrefix, v))}} : TRUE
    ELSE LET absPrefix == Join(root, prefix \o Star)
         IN  CHOOSE r \in
                 {[filePaths |-> [i \in 1..Len(absPaths) |-> TrimPrefix(absPaths[i], root)],
                   panic |-> FALSE] :
                      absPaths \in {Glob(f, absPrefix)}} : TRUE

\* ListWithPrefix: the listing step, then the modification time of each path
ListWithPrefix(root, f, prefix, recursive) ==
    CHOOSE r \in
        {IF ls.panic
         THEN [filePaths |-> <<>>, nilTimes |-> TRUE, modTimes |-> <<>>,
               err |-> ErrNil, panic |-> TRUE]
         ELSE ModTimes(root, f, ls.filePaths) :
             ls \in {ListPaths(root, f, prefix, recursive)}} : TRUE

\* one turn of the loop over the listed paths, returning at the first stat
\* that fails with the modification times got so far
StatNextPartial(root, f, filePaths, modTimes) ==
    LET mt == getModTime(root, f, filePaths[Len(modTimes) + 1])
    IN  IF mt.err # ErrNil
        THEN [done |-> TRUE, modTimes |-> modTimes,
              result |-> [filePaths |-> filePaths, nilTimes |-> modTimes = <<>>,
                          modTimes |-> modTimes, err |-> mt.err, panic |-> FALSE]]
        ELSE LET got == Append(modTimes, mt.modTime)
             IN  [done |-> Len(got) = Len(filePaths), modTimes |-> got,
                  result |-> [filePaths |-> filePaths, nilTimes |-> FALSE,
                              modTimes |-> got, err |-> ErrNil, panic |-> FALSE]]

\* one turn of the loop over the listed paths: the stat of the next path; the
\* call returns (done) when the stat fails and after the last path
StatNext(root, f, filePaths, modTimes) ==
    LET mt == getModTime(root, f, filePaths[Len(modTimes) + 1])
    IN  IF mt.err # ErrNil
        THEN [done |-> TRUE, modTimes |-> modTimes,
              result |-> [filePaths |-> filePaths, nilTimes |-> TRUE,
                          modTimes |-> <<>>, err |-> mt.err, panic |-> FALSE]]
        ELSE LET got == Append(modTimes, mt.modTime)
             IN  [done |-> Len(got) = Len(filePaths), modTimes |-> got,
                  result |-> [filePaths |-> filePaths, nilTimes |-> FALSE,
                              modTimes |-> got, err |-> ErrNil, panic |-> FALSE]]

\* ReadWithPrefix
ReadWithPrefix(root, f, prefix) ==
    CHOOSE r \in
        {IF ls.panic \/ ls.err # ErrNil
         THEN [filePaths |-> <<>>, results |-> <<>>, err |-> ls.err, el |-> <<>>,
               panic |-> ls.panic]
         ELSE LET mr == MultiRead(root, f, ls.filePaths)
              IN  [filePaths |-> ls.filePaths, results |-> mr.results,
                   err |-> mr.err, el |-> mr.el, panic |-> FALSE] :
             ls \in {ListWithPrefix(root, f, prefix, TRUE)}} : TRUE

\* RemoveWithPrefix
RemoveWithPrefix(root, f, prefix) ==
    CHOOSE r \in
        {IF ls.panic \/ ls.err # ErrNil
         THEN [err |-> ls.err, el |-> <<>>, outcomes |-> <<>>, fs |-> f,
               panic |-> ls.panic]
         ELSE LET mr == MultiRemove(root, f, ls.filePaths)
              IN  [err |-> mr.err, el |-> mr.el, outcomes |-> mr.outcomes,
                   fs |-> mr.fs, panic |-> FALSE] :
             ls \in {ListWithPrefix(root, f, prefix, TRUE)}} : TRUE

(***************************************************************************)
(* Inputs                                                                  *)
(***************************************************************************)
\* the roots the manager is constructed with: absolute, with and without a
\* trailing slash
Roots == { <<"/", "r">>, <<"/", "r", "/">> }

PathX == <<"a", "/", "b", "/", "x", ".", "t", "x", "t">>
PathY == <<"a", "/", "b", "/", "c", "/", "y", ".", "t", "x", "t">>
PathZ == <<"a", "/", "b", "c", "/", "z", ".", "t", "x", "t">>
PathAB == <<"a", "/", "b">>
PathSlashX == Slash \o PathX

\* the virtual paths of the single-object operations
Paths == {PathX, PathY, PathZ, PathAB, PathSlashX}

\* the paths of ranged reads
ReadAtPaths == {PathX, PathAB}

\* the paths of the batch operations
BatchPaths == {PathX, PathSlashX, PathAB}

\* the sequences of at most MaxBatch batch paths
Batches == UNION {[1..n -> BatchPaths] : n \in 0..MaxBatch}

\* the orders in which the range statement may yield the keys of a map
Orders(keys) ==
    {o \in [1..Cardinality(keys) -> keys] : \A k \in keys : \E i \in DOMAIN o : o[i] = k}

\* the prefixes listed and removed
Prefixes == {PathAB, PathAB \o Slash, <<"a", "/", "b", "c">>, <<>>}

\* the contents written: the first n of the bytes 1, 2, 3, ...
Data == {[i \in 1..n |-> i] : n \in 0..MaxDataLen}

\* nothing but the filesystem's own root directory
EmptyFS == [q \in {Slash} |-> DirEntry]

(***************************************************************************)
(* The state machine                                                       *)
(***************************************************************************)
NoArg == [filePath |-> <<>>]
NoRet == [err |-> ErrNil]
NoCall == [name |-> "none"]

Init ==
    /\ localPath \in Roots
    /\ fs = EmptyFS
    /\ pre = EmptyFS
    /\ op = "New"
    /\ arg = NoArg
    /\ ret = NoRet
    /\ written = {}
    /\ inflight = NoCall

\* an operation that changes the filesystem: r is what it returns
Mutate(name, a, r) ==
    /\ op' = name
    /\ arg' = a
    /\ ret' = [f \in DOMAIN r \ {"fs"} |-> r[f]]
    /\ pre' = fs
    /\ fs' = r.fs
    /\ UNCHANGED localPath

\* an operation the code of which changes nothing
Observe(name, a, r) ==
    /\ op' = name
    /\ arg' = a
    /\ ret' = r
    /\ pre' = fs
    /\ UNCHANGED <<localPath, fs>>

DoWrite ==
    \E p \in Paths, d \in Data :
        Mutate("Write", [filePath |-> p, content |-> d], Write(localPath, fs, p, d))

DoRemove ==
    \E p \in Paths :
        Mutate("Remove", [filePath |-> p], Remove(localPath, fs, p))

DoExist ==
    \E p \in Paths :
        Observe("Exist", [filePath |-> p], Exist(localPath, fs, p))

DoPath ==
    \E p \in Paths :
        Observe("Path", [filePath |-> p], Path(localPath, fs, p))

DoReader ==
    \E p \in Paths :
        Observe("Reader", [filePath |-> p], Reader(localPath, fs, p))

DoRead ==
    \E p \in Paths :
        Observe("Read", [filePath |-> p], Read(localPath, fs, p))

DoReadAt ==
    \E p \in ReadAtPaths, off \in -1..MaxOff, length \in -1..MaxOff :
        Observe("ReadAt", [filePath |-> p, off |-> off, length |-> length],
                ReadAt(localPath, fs, p, off, length))

DoMultiWrite ==
    \E keys \in SUBSET BatchPaths :
        /\ Cardinality(keys) <= MaxBatch
        /\ \E contents \in [keys -> Data], order \in Orders(keys) :
               Mutate("MultiWrite", [contents |-> contents, order |-> order],
                      MultiWrite(localPath, fs, contents, order))

DoMultiRead ==
    \E filePaths \in Batches :
        Observe("MultiRead", [filePaths |-> filePaths],
                MultiRead(localPath, fs, filePaths))

DoMultiRemove ==
    \E filePaths \in Batches :
        Mutate("MultiRemove", [filePaths |-> filePaths],
               MultiRemove(localPath, fs, filePaths))

DoListWithPrefix ==
    \E prefix \in Prefixes, recursive \in BOOLEAN :
        Observe("ListWithPrefix", [prefix |-> prefix, recursive |-> recursive],
                ListWithPrefix(localPath, fs, prefix, recursive))

DoReadWithPrefix ==
    \E prefix \in Prefixes :
        Observe("ReadWithPrefix", [prefix |-> prefix],
                ReadWithPrefix(localPath, fs, prefix))

DoRemoveWithPrefix ==
    \E prefix \in Prefixes :
        Mutate("RemoveWithPrefix", [prefix |-> prefix],
               RemoveWithPrefix(localPath, fs, prefix))

\* the single-object operations
Next ==
    /\ \/ DoWrite
       \/ DoRemove
       \/ DoExist
       \/ DoPath
       \/ DoReader
       \/ DoRead
    /\ UNCHANGED <<written, inflight>>

Spec == Init /\ [][Next]_vars

\* ranged reads
NextReadAt ==
    /\ \/ DoWrite
       \/ DoRemove
       \/ DoReadAt
    /\ UNCHANGED <<written, inflight>>

SpecReadAt == Init /\ [][NextReadAt]_vars

\* no call is outstanding: the manager is as constructed, or the caller has
\* taken what the last call returned
Idle == op = "New"

\* the caller takes what the last call returned; the filesystem stays
Return ==
    /\ ~Idle
    /\ op' = "New"
    /\ arg' = NoArg
    /\ ret' = NoRet
    /\ pre' = fs
    /\ UNCHANGED <<localPath, fs>>

\* the batch operations, called one after the other by a caller that has
\* taken the result of the call before
NextBatch ==
    /\ \/ Idle /\ DoMultiWrite
       \/ Idle /\ DoMultiRead
       \/ Idle /\ DoMultiRemove
       \/ Return
    /\ UNCHANGED <<written, inflight>>

SpecBatch == Init /\ [][NextBatch]_vars

\* the prefix operations
NextList ==
    /\ \/ DoWrite
       \/ DoRemove
       \/ DoListWithPrefix
       \/ DoReadWithPrefix
       \/ DoRemoveWithPrefix
    /\ UNCHANGED <<written, inflight>>

SpecList == Init /\ [][NextList]_vars

\* Write and Exist, with the history of the paths written
NextHist ==
    \/ DoWrite /\ written' = written \cup {arg'.filePath} /\ UNCHANGED inflight
    \/ DoExist /\ UNCHANGED <<written, inflight>>

SpecHist == Init /\ [][NextHist]_vars

(***************************************************************************)
(* Calls of several callers, interleaved. The manager holds no lock: a     *)
(* call is a sequence of system calls, and the system calls of another     *)
(* caller may come between any two of them. One caller's call is followed  *)
(* step by step (inflight); the calls of the other callers change the      *)
(* filesystem as a whole.                                                  *)
(***************************************************************************)
\* the paths the interleaved callers write and remove: files that are neither
\* above nor beneath one another
RacePaths == {PathX, PathY}

\* a Write of another caller
OtherWrite ==
    /\ Idle
    /\ \E p \in RacePaths, d \in Data : fs' = Write(localPath, fs, p, d).fs
    /\ UNCHANGED <<localPath, pre, op, arg, ret, written, inflight>>

\* a Remove of another caller
OtherRemove ==
    /\ Idle
    /\ \E p \in RacePaths : fs' = Remove(localPath, fs, p).fs
    /\ UNCHANGED <<localPath, pre, op, arg, ret, written, inflight>>

\* Read, up to the return of Exist: the early returns, or on to ReadFile
ReadExist ==
    /\ Idle
    /\ inflight = NoCall
    /\ \E p \in RacePaths :
           LET ex == Exist(localPath, fs, p)
           IN  IF ex.err # ErrNil
               THEN /\ Observe("Read", [filePath |-> p], [data |-> NilBytes, err |-> ex.err])
                    /\ UNCHANGED inflight
               ELSE IF ~ex.exist
               THEN /\ Observe("Read", [filePath |-> p],
                               [data |-> NilBytes, err |-> ErrFileNotExist])
                    /\ UNCHANGED inflight
               ELSE /\ inflight' = [name |-> "Read", filePath |-> p]
                    /\ UNCHANGED <<localPath, fs, pre, op, arg, ret>>
    /\ UNCHANGED written

\* Read, from ioutil.ReadFile to the return
ReadReadFile ==
    /\ inflight.name = "Read"
    /\ Observe("Read", [filePath |-> inflight.filePath],
               ReadFile(fs, Join(localPath, inflight.filePath)))
    /\ inflight' = NoCall
    /\ UNCHANGED written

\* a Read of one caller among the Writes and Removes of others
NextRace ==
    \/ OtherWrite
    \/ OtherRemove
    \/ ReadExist
    \/ ReadReadFile
    \/ Return /\ UNCHANGED <<written, inflight>>

SpecRace == Init /\ [][NextRace]_vars

\* ListWithPrefix, the listing step; with nothing listed the loop has no
\* turn and the call returns
ListBegin ==
    /\ Idle
    /\ inflight = NoCall
    /\ \E prefix \in Prefixes, recursive \in BOOLEAN :
           LET ls == ListPaths(localPath, fs, prefix, recursive)
               a == [prefix |-> prefix, recursive |-> recursive]
           IN  IF ls.panic
               THEN /\ Observe("ListWithPrefix", a,
                               [filePaths |-> <<>>, nilTimes |-> TRUE, modTimes |-> <<>>,
                                err |-> ErrNil, panic |-> TRUE])
                    /\ UNCHANGED inflight
               ELSE IF ls.filePaths = <<>>
               THEN /\ Observe("ListWithPrefix", a, ModTimes(localPath, fs, <<>>))
                    /\ UNCHANGED inflight
               ELSE /\ inflight' = [name |-> "ListWithPrefix", prefix |-> prefix,
                                    recursive |-> recursive, filePaths |-> ls.filePaths,
                                    modTimes |-> <<>>]
                    /\ UNCHANGED <<localPath, fs, pre, op, arg, ret>>
    /\ UNCHANGED written

\* ListWithPrefix, one turn of the loop over the listed paths
ListStat ==
    /\ inflight.name = "ListWithPrefix"
    /\ LET st == StatNext(localPath, fs, inflight.filePaths, inflight.modTimes)
       IN  IF st.done
           THEN /\ Observe("ListWithPrefix",
                           [prefix |-> inflight.prefix, recursive |-> inflight.recursive],
                           st.result)
                /\ inflight' = NoCall
           ELSE /\ inflight' = [inflight EXCEPT !.modTimes = st.modTimes]
                /\ UNCHANGED <<localPath, fs, pre, op, arg, ret>>
    /\ UNCHANGED written

\* a ListWithPrefix of one caller among the Writes and Removes of others
NextListRace ==
    \/ OtherWrite
    \/ OtherRemove
    \/ ListBegin
    \/ ListStat
    \/ Return /\ UNCHANGED <<written, inflight>>

SpecListRace == Init /\ [][NextListRace]_vars

(***************************************************************************)
(* Write and Remove on paths the first element of which is the name of the *)
(* root directory, next to paths of the same shape without it.             *)
(***************************************************************************)
PathR == <<"r">>
PathRX == PathR \o Slash \o PathX

RootedPaths == {PathX, PathAB, PathR, PathRX}

WriteRooted ==
    /\ Idle
    /\ \E p \in RootedPaths, d \in Data :
           Mutate("Write", [filePath |-> p, content |-> d], Write(localPath, fs, p, d))

RemoveRooted ==
    /\ Idle
    /\ \E p \in RootedPaths :
           Mutate("Remove", [filePath |-> p], Remove(localPath, fs, p))

NextRooted ==
    /\ \/ WriteRooted
       \/ RemoveRooted
       \/ Return
    /\ UNCHANGED <<written, inflight>>

SpecRooted == Init /\ [][NextRooted]_vars

(***************************************************************************)
(* Write, Remove and ReadWithPrefix with a path that path.Join resolves to *)
(* a directory next to the root, the name of which begins with the name of *)
(* the root.                                                               *)
(***************************************************************************)
PathOutX == DotDot \o Slash \o <<"r", "x">> \o Slash \o <<"x", ".", "t", "x", "t">>

OutPaths == {PathX, PathOutX}

WriteOut ==
    /\ Idle
    /\ \E p \in OutPaths, d \in Data :
           Mutate("Write", [filePath |-> p, content |-> d], Write(localPath, fs, p, d))

RemoveOut ==
    /\ Idle
    /\ \E p \in OutPaths :
           Mutate("Remove", [filePath |-> p], Remove(localPath, fs, p))

NextOut ==
    /\ \/ WriteOut
       \/ RemoveOut
       \/ Idle /\ DoReadWithPrefix
       \/ Return
    /\ UNCHANGED <<written, inflight>>

SpecOut == Init /\ [][NextOut]_vars

(***************************************************************************)
(* MultiWrite of maps the keys of which resolve to files that are neither  *)
(* the same nor above one another.                                         *)
(***************************************************************************)
ApartPaths == {PathX, PathY, PathRX}

MultiWriteApart ==
    /\ Idle
    /\ \E keys \in SUBSET ApartPaths :
           /\ Cardinality(keys) <= MaxBatch
           /\ \E contents \in [keys -> Data], order \in Orders(keys) :
                  Mutate("MultiWrite", [contents |-> contents, order |-> order],
                         MultiWrite(localPath, fs, contents, order))

NextApart ==
    /\ \/ MultiWriteApart
       \/ Return
    /\ UNCHANGED <<written, inflight>>

SpecApart == Init /\ [][NextApart]_vars

(***************************************************************************)
(* What the claims speak of                                                *)
(***************************************************************************)
\* the on-disk path of a virtual path
Resolved(p) == Join(localPath, p)

IsFile(f, q) == q \in DOMAIN f /\ ~f[q].isDir

\* some proper ancestor of q is a regular file
FileAbove(f, q) == \E a \in DOMAIN f : ~f[a].isDir /\ HasPrefix(q, a \o Slash)

\* q is p or lies beneath it
AtOrBelow(q, p) == q = p \/ HasPrefix(q, p \o Slash)

C5_Original ==
    (op = "ReadAt" /\ IsFile(fs, Resolved(arg.filePath))) =>
        LET content == fs[Resolved(arg.filePath)].data
            off == arg.off
            length == arg.length
        IN  IF off < 0 \/ length < 0 \/ off + length > Len(content)
            THEN ret.err # ErrNil /\ ret.data = NilBytes
            ELSE ret = [data |-> Bytes([i \in 1..length |-> content[off + i]]),
                        err |-> ErrNil]

\* C5, amended: ReadAt fails and returns no bytes when off < 0, len < 0, or
\* len > 0 and off + len > n; it returns the len bytes from off when 0 <= off,
\* 0 <= len and off + len <= n; with len = 0 and off > n it returns an empty
\* buffer and no error.
C5_ReadAt ==
    (op = "ReadAt" /\ IsFile(fs, Resolved(arg.filePath))) =>
        LET content == fs[Resolved(arg.filePath)].data
            off == arg.off
            length == arg.length
        IN  IF off < 0 \/ length < 0 \/ (length > 0 /\ off + length > Len(content))
            THEN ret.err # ErrNil /\ ret.data = NilBytes
            ELSE IF off + length <= Len(content)
            THEN ret = [data |-> Bytes([i \in 1..length |-> content[off + i]]),
                        err |-> ErrNil]
            ELSE ret = [data |-> Bytes(<<>>), err |-> ErrNil]

\* a read of one byte that starts at the end of a file that has bytes
C5_Witness ==
    /\ op = "ReadAt"
    /\ IsFile(fs, Resolved(arg.filePath))
    /\ Len(fs[Resolved(arg.filePath)].data) > 0
    /\ arg.off = Len(fs[Resolved(arg.filePath)].data)
    /\ arg.length = 1
    /\ ret.err = EOF

(***************************************************************************)
(* C8                                                                      *)
(***************************************************************************)
\* what Remove(p) leaves of f: everything but p and what is beneath it
Without(f, p) == [q \in {q \in DOMAIN f : ~AtOrBelow(q, p)} |-> f[q]]

\* C8, as stated: Remove(p) where nothing exists returns no error and changes
\* nothing; on an existing entry it removes the entry and everything beneath
\* it, and Exist(p) is false afterwards; a second Remove(p) changes nothing
\* and returns no error.
C8_Original ==
    op = "Remove" =>
        LET p == Resolved(arg.filePath)
            again == Remove(localPath, fs, arg.filePath)
        IN  /\ p \notin DOMAIN pre => ret.err = ErrNil /\ fs = pre
            /\ p \in DOMAIN pre =>
                   /\ ret.err = ErrNil
                   /\ fs = Without(pre, p)
                   /\ Exist(localPath, fs, arg.filePath) = [exist |-> FALSE, err |-> ErrNil]
            /\ again.fs = fs
            /\ again.err = ErrNil

\* C8, amended: Remove(p) where nothing exists changes nothing, and returns
\* no error unless an ancestor of the path is a regular file, when it returns
\* the error of the stat (not a directory); on an existing entry it removes
\* the entry and everything beneath it and returns no error, and Exist(p) is
\* false afterwards; a second Remove(p) changes nothing and returns what the
\* first returned.
C8_Remove ==
    op = "Remove" =>
        LET p == Resolved(arg.filePath)
            again == Remove(localPath, fs, arg.filePath)
        IN  /\ p \notin DOMAIN pre =>
                   /\ fs = pre
                   /\ ret.err = IF FileAbove(pre, p) THEN ENOTDIR ELSE ErrNil
            /\ p \in DOMAIN pre =>
                   /\ ret.err = ErrNil
                   /\ fs = Without(pre, p)
                   /\ Exist(localPath, fs, arg.filePath) = [exist |-> FALSE, err |-> ErrNil]
            /\ again.fs = fs
            /\ again.err = ret.err

\* a Remove of a directory that held something
C8_Witness ==
    /\ op = "Remove"
    /\ ret.err = ErrNil
    /\ Resolved(arg.filePath) \in DOMAIN pre
    /\ pre[Resolved(arg.filePath)].isDir
    /\ \E q \in DOMAIN pre : q # Resolved(arg.filePath) /\ AtOrBelow(q, Resolved(arg.filePath))
    /\ Resolved(arg.filePath) \notin DOMAIN fs

(***************************************************************************)
(* C9                                                                      *)
(***************************************************************************)
\* C9, as stated: Exist(p) is false with no error as long as no Write to p
\* has been made, and true with no error right after a Write to p.
C9_Original ==
    /\ \A p \in Paths \ written :
           Exist(localPath, fs, p) = [exist |-> FALSE, err |-> ErrNil]
    /\ op = "Write" =>
           Exist(localPath, fs, arg.filePath) = [exist |-> TRUE, err |-> ErrNil]

\* the on-disk paths of p and q are the same, or one is beneath the other
Related(p, q) ==
    AtOrBelow(Resolved(p), Resolved(q)) \/ AtOrBelow(Resolved(q), Resolved(p))

\* C9, amended: Exist(p) is false with no error as long as no Write has been
\* made to a path that resolves to the on-disk path of p, to an ancestor of it
\* or to a path beneath it; it is true with no error right after a Write to p
\* that returned no error.
C9_Exist ==
    /\ \A p \in Paths :
           (\A q \in written : ~Related(p, q)) =>
               Exist(localPath, fs, p) = [exist |-> FALSE, err |-> ErrNil]
    /\ (op = "Write" /\ ret.err = ErrNil) =>
           Exist(localPath, fs, arg.filePath) = [exist |-> TRUE, err |-> ErrNil]

\* a successful Write to one path, with another path still unwritten, its
\* directory apart, and absent
C9_Witness ==
    /\ op = "Write"
    /\ ret.err = ErrNil
    /\ written # {}
    /\ \E p \in Paths :
           /\ \A q \in written : ~Related(p, q)
           /\ ~Exist(localPath, fs, p).exist

(***************************************************************************)
(* C10                                                                     *)
(***************************************************************************)
\* the not-found error of each operation
NotFoundOf(name) == IF name = "Read" THEN ErrFileNotExist ELSE ErrLocalFileNotFound

\* no value: nil bytes, a nil reader, the empty string
NoValue(name, r) ==
    CASE name = "Read" -> r.data = NilBytes
      [] name = "Reader" -> r.nil
      [] name = "Path" -> r.path = <<>>

\* what C10 says of a path where a file exists
C10_Present ==
    /\ (op = "Path" /\ IsFile(pre, Resolved(arg.filePath))) =>
           ret = [path |-> Join(localPath, arg.filePath), err |-> ErrNil]
    /\ (op = "Read" /\ IsFile(pre, Resolved(arg.filePath))) =>
           ret = [data |-> Bytes(pre[Resolved(arg.filePath)].data), err |-> ErrNil]

\* C10, as stated: where nothing exists, Read, Reader and Path return the
\* not-found error and no value and change nothing; where a file exists, Path
\* returns the join of root and p and Read the whole content.
C10_Original ==
    /\ (op \in {"Read", "Reader", "Path"} /\ Resolved(arg.filePath) \notin DOMAIN pre) =>
           /\ ret.err = NotFoundOf(op)
           /\ NoValue(op, ret)
           /\ fs = pre
    /\ C10_Present

\* C10, amended: where nothing exists and no ancestor of the path is a
\* regular file, Read, Reader and Path return the not-found error and no
\* value and change nothing; where an ancestor is a regular file they return
\* the error of the stat (not a directory) and no value, and change nothing;
\* where a file exists, Path returns the join of root and p and Read the
\* whole content.
C10_NotFound ==
    /\ (op \in {"Read", "Reader", "Path"} /\ Resolved(arg.filePath) \notin DOMAIN pre) =>
           /\ ret.err = IF FileAbove(pre, Resolved(arg.filePath)) THEN ENOTDIR
                        ELSE NotFoundOf(op)
           /\ NoValue(op, ret)
           /\ fs = pre
    /\ C10_Present

\* a Read of an absent path in a directory that exists
C10_Witness ==
    /\ op = "Read"
    /\ Resolved(arg.filePath) \notin DOMAIN pre
    /\ Dir(Resolved(arg.filePath)) \in DOMAIN pre
    /\ ret = [data |-> NilBytes, err |-> ErrFileNotExist]

(***************************************************************************)
(* C3                                                                      *)
(***************************************************************************)
\* the indices of a batch of paths that satisfy Test
Indices(filePaths, Test(_)) == {i \in 1..Len(filePaths) : Test(filePaths[i])}

\* the elements a sequence holds at a set of indices, in their order
RECURSIVE Pick(_, _)
Pick(seq, idx) ==
    IF idx = {} THEN <<>>
    ELSE LET i == CHOOSE j \in idx : \A k \in idx : j <= k
         IN  <<seq[i]>> \o Pick(seq, idx \ {i})

\* C3, as stated: MultiRead of n paths, k of them missing, returns n slots
\* and an aggregate of exactly k errors (none when k = 0); the slot of a
\* present path holds what Read returns, the slot of a missing path is empty.
C3_Original ==
    op = "MultiRead" =>
        LET filePaths == arg.filePaths
            missing == Indices(filePaths, LAMBDA p : Resolved(p) \notin DOMAIN fs)
        IN  /\ Len(ret.results) = Len(filePaths)
            /\ Len(ret.el) = Cardinality(missing)
            /\ (ret.err = ErrNil) = (missing = {})
            /\ \A i \in 1..Len(filePaths) :
                   IF i \in missing THEN ret.results[i].b = <<>>
                   ELSE ret.results[i] = Read(localPath, fs, filePaths[i]).data

\* C3, amended: MultiRead of n paths, k of them paths the single Read of
\* which fails (the missing paths and the directories), returns n slots in
\* input order and an aggregate holding exactly these k errors in input order
\* (no error when k = 0); every slot holds what Read returns, which is empty
\* for each of the k paths and nil for a missing one.
C3_MultiRead ==
    op = "MultiRead" =>
        LET filePaths == arg.filePaths
            missing == Indices(filePaths, LAMBDA p : Resolved(p) \notin DOMAIN fs)
            failing == Indices(filePaths, LAMBDA p : ~IsFile(fs, Resolved(p)))
        IN  /\ Len(ret.results) = Len(filePaths)
            /\ ret.el = Pick([i \in 1..Len(filePaths) |->
                                 Read(localPath, fs, filePaths[i]).err], failing)
            /\ \A i \in 1..Len(ret.el) : ret.el[i] # ErrNil
            /\ (ret.err = ErrNil) = (failing = {})
            /\ \A i \in 1..Len(filePaths) :
                   /\ ret.results[i] = Read(localPath, fs, filePaths[i]).data
                   /\ i \in failing => ret.results[i].b = <<>>
                   /\ i \in missing => ret.results[i] = NilBytes
                   /\ i \notin failing => ret.results[i] = Bytes(fs[Resolved(filePaths[i])].data)

\* a MultiRead of a file that holds bytes and of a missing path
C3_Witness ==
    /\ op = "MultiRead"
    /\ Len(arg.filePaths) = 2
    /\ Resolved(arg.filePaths[1]) \notin DOMAIN fs
    /\ IsFile(fs, Resolved(arg.filePaths[2]))
    /\ ret.results[2].b # <<>>
    /\ Len(ret.el) = 1

(***************************************************************************)
(* C4                                                                      *)
(***************************************************************************)
\* the paths of the batch, in the order in which the loop takes them
BatchOrder == IF op = "MultiWrite" THEN arg.order ELSE arg.filePaths

\* what C4 says of the attempts and of the aggregate: one outcome per item,
\* after a failure too, and an aggregate that is not nil exactly when an item
\* failed; every path removed with success is absent in the end
C4_Attempts ==
    /\ Len(ret.outcomes) = Len(BatchOrder)
    /\ (ret.err # ErrNil) = (\E i \in 1..Len(ret.outcomes) : ret.outcomes[i] # ErrNil)
    /\ ret.el = Failures(ret.outcomes)
    /\ op = "MultiRemove" =>
           \A i \in 1..Len(BatchOrder) :
               ret.outcomes[i] = ErrNil => Resolved(BatchOrder[i]) \notin DOMAIN fs

\* C4, as stated: every item is attempted, the aggregate is not nil exactly
\* when an item failed, and every item that succeeded has its effect in the
\* final state: the path removed is absent, the file written holds the
\* content of its item.
C4_Original ==
    op \in {"MultiWrite", "MultiRemove"} =>
        /\ C4_Attempts
        /\ op = "MultiWrite" =>
               \A i \in 1..Len(BatchOrder) :
                   ret.outcomes[i] = ErrNil =>
                       /\ IsFile(fs, Resolved(BatchOrder[i]))
                       /\ fs[Resolved(BatchOrder[i])].data = arg.contents[BatchOrder[i]]

\* C4, amended: as stated, except that the file of an item written with
\* success holds, in the final state, the content of the last item written
\* with success whose key resolves to the same on-disk path (two keys of one
\* map, such as "a/b/x.txt" and "/a/b/x.txt", may resolve to one file).
C4_Batch ==
    op \in {"MultiWrite", "MultiRemove"} =>
        /\ C4_Attempts
        /\ op = "MultiWrite" =>
               \A i \in 1..Len(BatchOrder) :
                   ret.outcomes[i] = ErrNil =>
                       LET same == {j \in i..Len(BatchOrder) :
                                       /\ ret.outcomes[j] = ErrNil
                                       /\ Resolved(BatchOrder[j]) = Resolved(BatchOrder[i])}
                           last == CHOOSE j \in same : \A k \in same : k <= j
                       IN  /\ IsFile(fs, Resolved(BatchOrder[i]))
                           /\ fs[Resolved(BatchOrder[i])].data = arg.contents[BatchOrder[last]]

\* a MultiWrite the first item of which fails and the second of which is
\* written
C4_Witness ==
    /\ op = "MultiWrite"
    /\ Len(arg.order) = 2
    /\ ret.outcomes[1] # ErrNil
    /\ ret.outcomes[2] = ErrNil
    /\ ~IsFile(pre, Resolved(arg.order[2]))
    /\ IsFile(fs, Resolved(arg.order[2]))

(***************************************************************************)
(* C2                                                                      *)
(***************************************************************************)
\* C2: after a RemoveWithPrefix(prefix) that returned no error, ListWithPrefix
\* of the same prefix returns no path, in recursive and in non-recursive mode.
C2_Original ==
    (op = "RemoveWithPrefix" /\ ~ret.panic /\ ret.err = ErrNil) =>
        \A recursive \in BOOLEAN :
            ListWithPrefix(localPath, fs, arg.prefix, recursive).filePaths = <<>>

(***************************************************************************)
(* C6                                                                      *)
(***************************************************************************)
\* the elements of a sequence
Range(seq) == {seq[i] : i \in 1..Len(seq)}

\* q lies beneath directory dir
Beneath(q, dir) == q # dir /\ (dir = Slash \/ HasPrefix(q, dir \o Slash))

\* the tree of the example: a/b/x.txt, a/b/c/y.txt and a/bc/z.txt
ExampleTree ==
    {q \in DOMAIN fs : ~fs[q].isDir} = {Resolved(PathX), Resolved(PathY), Resolved(PathZ)}

\* C6: the recursive ListWithPrefix returns, once each, exactly the entries
\* beneath the parent directory of the resolved prefix that are no directories
\* and whose path begins with the resolved prefix as a string; over the
\* example tree the prefix "a/b" returns the three files, and no directory.
C6_Recursive ==
    (op = "ListWithPrefix" /\ arg.recursive) =>
        LET absPrefix == Resolved(arg.prefix)
            matching == {q \in DOMAIN fs : /\ ~fs[q].isDir
                                          /\ Beneath(q, Dir(absPrefix))
                                          /\ HasPrefix(q, absPrefix)}
        IN  /\ ~ret.panic
            /\ Range(ret.filePaths) = {TrimPrefix(q, localPath) : q \in matching}
            /\ Len(ret.filePaths) = Cardinality(matching)
            /\ (ExampleTree /\ arg.prefix = PathAB) =>
                   {Resolved(fp) : fp \in Range(ret.filePaths)} =
                       {Resolved(PathX), Resolved(PathY), Resolved(PathZ)}

\* the recursive listing of "a/b" over the example tree
C6_Witness ==
    /\ op = "ListWithPrefix"
    /\ arg.recursive
    /\ arg.prefix = PathAB
    /\ ExampleTree
    /\ Len(ret.filePaths) = 3
    /\ ret.err = ErrNil

(***************************************************************************)
(* C7                                                                      *)
(***************************************************************************)
\* what C7 says of the example tree: "a/b" does not return a/b/c/y.txt
C7_Example ==
    (ExampleTree /\ arg.prefix = PathAB) =>
        \A fp \in Range(ret.filePaths) : Resolved(fp) # Resolved(PathY)

\* C7, as stated: the non-recursive ListWithPrefix returns only entries that
\* are directly in the parent directory of the resolved prefix and whose name
\* begins with the last element of the prefix.
C7_Original ==
    (op = "ListWithPrefix" /\ ~arg.recursive) =>
        /\ \A fp \in Range(ret.filePaths) :
               /\ Resolved(fp) \in DOMAIN fs
               /\ Dir(Resolved(fp)) = Dir(Resolved(arg.prefix))
               /\ HasPrefix(Base(Resolved(fp)), Base(Resolved(arg.prefix)))
        /\ C7_Example

\* the directory the pattern prefix + "*" is matched in, and the start of
\* the names it matches
PatternDir(prefix) ==
    IF prefix = <<>> \/ prefix[Len(prefix)] = "/" THEN Resolved(prefix)
    ELSE Dir(Resolved(prefix))
PatternName(prefix) == SubSeq(prefix, LastSlash(prefix) + 1, Len(prefix))

\* C7, amended: the non-recursive ListWithPrefix returns exactly the entries,
\* files and directories, that are directly in the directory of the pattern
\* root/prefix* and whose name begins with what follows the last slash of the
\* prefix; this directory is the parent directory of the resolved prefix,
\* except for an empty prefix and a prefix that ends with a slash, where it
\* is the resolved prefix itself. No entry nested deeper is returned.
C7_NonRecursive ==
    (op = "ListWithPrefix" /\ ~arg.recursive) =>
        LET matching == {q \in DOMAIN fs : /\ q # PatternDir(arg.prefix)
                                          /\ Dir(q) = PatternDir(arg.prefix)
                                          /\ HasPrefix(Base(q), PatternName(arg.prefix))}
        IN  /\ Range(ret.filePaths) = {TrimPrefix(q, localPath) : q \in matching}
            /\ Len(ret.filePaths) = Cardinality(matching)
            /\ {Resolved(fp) : fp \in Range(ret.filePaths)} = matching
            /\ C7_Example

\* the non-recursive listing of "a/b" over the example tree: the directories
\* a/b and a/bc
C7_Witness ==
    /\ op = "ListWithPrefix"
    /\ ~arg.recursive
    /\ arg.prefix = PathAB
    /\ ExampleTree
    /\ {Resolved(fp) : fp \in Range(ret.filePaths)} =
           {Resolved(PathAB), Resolved(<<"a", "/", "b", "c">>)}

(***************************************************************************)
(* C11                                                                     *)
(***************************************************************************)
\* C11: a Read(p) interleaved with the Remove(p) of another caller returns
\* the full content of the file or the not-found error of Read; the absence
\* of the file is never returned as the error of a system call.
C11_Original ==
    op = "Read" =>
        \/ ret = [data |-> NilBytes, err |-> ErrFileNotExist]
        \/ /\ IsFile(fs, Resolved(arg.filePath))
           /\ ret = [data |-> Bytes(fs[Resolved(arg.filePath)].data), err |-> ErrNil]

(***************************************************************************)
(* C12                                                                     *)
(***************************************************************************)
\* C12: every ListWithPrefix, in either mode, also with a listed file removed
\* by another caller between the listing and the stat of the paths, returns
\* either no error and one modification time for each returned path, in the
\* order of the paths, or an error and nil modification times (with the
\* listed paths, when it is a stat that failed); never modification times
\* that are not nil and fewer than the paths.
C12_Shapes ==
    op = "ListWithPrefix" =>
        /\ ~ret.panic
        /\ \/ /\ ret.err = ErrNil
              /\ Len(ret.modTimes) = Len(ret.filePaths)
              /\ \A i \in 1..Len(ret.filePaths) :
                     ret.modTimes[i] = Resolved(ret.filePaths[i])
           \/ /\ ret.err # ErrNil
              /\ ret.nilTimes
              /\ ret.modTimes = <<>>
              /\ ret.filePaths # <<>>
        /\ ~(~ret.nilTimes /\ Len(ret.modTimes) < Len(ret.filePaths))

\* a listing of two paths or more the second stat of which fails: the file
\* was removed after the listing step
C12_Witness ==
    /\ op = "ListWithPrefix"
    /\ Len(ret.filePaths) >= 2
    /\ IsFile(fs, Resolved(ret.filePaths[1]))
    /\ ret.err = ENOENT
    /\ ret.nilTimes

(***************************************************************************)
(* C13                                                                     *)
(***************************************************************************)
\* the directories above the clean absolute path q
Ancestors(q) == {Slash} \cup {SubSeq(q, 1, i - 1) : i \in {j \in 2..Len(q) : q[j] = "/"}}

\* what f holds at q and above it
AtAndAbove(f, q) == [a \in DOMAIN f \cap (Ancestors(q) \cup {q}) |-> f[a]]

\* C13: the outcome of Write(p, data) depends only on the entries at the
\* resolved path and above it: the Write returns what it returns with every
\* other entry taken away; and after a Write that returned no error every
\* directory above the resolved path exists.
C13_Original ==
    op = "Write" =>
        LET q == Resolved(arg.filePath)
            alone == Write(localPath, AtAndAbove(pre, q), arg.filePath, arg.content)
        IN  /\ ret.err = alone.err
            /\ ret.err = ErrNil =>
                   \A a \in Ancestors(q) : a \in DOMAIN fs /\ fs[a].isDir

(***************************************************************************)
(* C14                                                                     *)
(***************************************************************************)
\* the files the walk of the recursive listing keeps, as the walk names them
Listed(f, prefix) ==
    LET absPrefix == Resolved(prefix)
    IN  SelectSeq(Walk(f, Dir(absPrefix)), LAMBDA v : WalkKeeps(absPrefix, v))

\* C14: ReadWithPrefix(prefix) returns the paths that the recursive
\* ListWithPrefix(prefix, true) returns and as many contents, the content at
\* i being what Read of the path at i returns; each returned path resolves
\* to the file that the listing found.
C14_Original ==
    op = "ReadWithPrefix" =>
        LET ls == ListWithPrefix(localPath, pre, arg.prefix, TRUE)
            listed == Listed(pre, arg.prefix)
        IN  /\ ~ret.panic
            /\ ret.filePaths = ls.filePaths
            /\ Len(ret.results) = Len(ret.filePaths)
            /\ \A i \in 1..Len(ret.filePaths) :
                   ret.results[i] = Read(localPath, pre, ret.filePaths[i]).data
            /\ Len(ls.filePaths) = Len(listed)
            /\ \A i \in 1..Len(listed) : Resolved(ls.filePaths[i]) = listed[i].path

(***************************************************************************)
(* C15                                                                     *)
(***************************************************************************)
\* C15: a Write(p, data), whether it returns an error or not, removes no
\* file and no directory and leaves every file but the one at the resolved
\* path of p as it was; a Write that returns no error adds nothing but the
\* file at the resolved path and the directories above it that were missing.
C15_Frame ==
    op = "Write" =>
        LET q == Resolved(arg.filePath)
        IN  /\ \A a \in DOMAIN pre :
                   /\ a \in DOMAIN fs
                   /\ fs[a].isDir = pre[a].isDir
                   /\ a # q => fs[a] = pre[a]
            /\ ret.err = ErrNil =>
                   /\ (DOMAIN fs \ DOMAIN pre) \subseteq ({q} \cup Ancestors(q))
                   /\ \A a \in (DOMAIN fs \ DOMAIN pre) \ {q} : fs[a].isDir
                   /\ fs[q] = FileEntry(arg.content)

\* a Write that makes a file, and directories above it, next to a file that
\* holds bytes
C15_Witness ==
    /\ op = "Write"
    /\ ret.err = ErrNil
    /\ Cardinality(DOMAIN fs \ DOMAIN pre) >= 2
    /\ \E a \in DOMAIN pre : ~pre[a].isDir /\ pre[a].data # <<>> /\ fs[a] = pre[a]

(***************************************************************************)
(* C16                                                                     *)
(***************************************************************************)
\* the keys resolve to on-disk paths that differ, none above another
Apart(keys) ==
    \A k1 \in keys : \A k2 \in keys \ {k1} : ~AtOrBelow(Resolved(k1), Resolved(k2))

\* C16: a MultiWrite of keys that resolve to paths that differ, none above
\* another, leaves the same filesystem and as many errors in the aggregate
\* whatever the order in which the range statement yields the keys.
C16_Original ==
    (op = "MultiWrite" /\ Apart(DOMAIN arg.contents)) =>
        \A order \in Orders(DOMAIN arg.contents) :
            LET other == MultiWrite(localPath, pre, arg.contents, order)
            IN  /\ other.fs = fs
                /\ Len(other.el) = Len(ret.el)

====
